---- MODULE Spec2Model ----
(***************************************************************************)
(* State-machine model of the OMX website behaviour layer (main script):   *)
(* bootstrapper, sticky-nav controller, mobile menu controller,           *)
(* copy-to-clipboard controller and the two cached stat fetchers.         *)
(*                                                                         *)
(* The browser is single threaded: every action below is one task of the   *)
(* event loop (an event handler, a timer callback, an animation-frame      *)
(* callback, or the continuation of an await), run to completion.          *)
(***************************************************************************)
EXTENDS Integers, Sequences, FiniteSets, TLC

VARIABLES
  page,             \* which optional DOM targets / browser features exist
  initialized,      \* AppState.initialized
  scrollDirection,  \* AppState.scrollDirection
  lastScrollY,      \* AppState.lastScrollY
  navVisible,       \* AppState.navVisible
  mobileMenuOpen,   \* AppState.mobileMenuOpen
  scrollY,          \* window.scrollY
  navWired,         \* the scroll listener of setupFixedNav is attached
  ticking,          \* closure variable of setupFixedNav
  rafQueue,         \* number of animation-frame callbacks requested, not yet run
  navClasses,       \* classList of .nav, restricted to {"scrolled", "hidden"}
  dirty,            \* a scroll event was delivered and no nav update ran since
  lastCurr,         \* the offset of the last processed nav update (history, 0 at first)
  menuWired,        \* the listeners of setupMobileMenu are attached
  activeEls,        \* the menu elements whose classList holds "active"
  bodyOverflow,     \* document.body.style.overflow
  hamOdd,           \* parity of the hamburger clicks since the last close-forcing event
  now,              \* Date.now() / the timer clock, in ms since the page was opened
  timers,           \* pending setTimeout callbacks, in the order they were scheduled
  copyWired,        \* the click listeners of setupCopyButtons are attached
  label,            \* textContent of every copy button
  copied,           \* the copy buttons whose classList holds "copied"
  writes,           \* per button, clipboard writes started and not yet settled
  handled,          \* per button, clicks that reached the clipboard write (history)
  outcomes,         \* per button, how its clipboard writes settled, in order (history)
  labelLog,         \* per button, every label assignment with its time (history)
  cache,            \* sessionStorage: per key the stored entry, or NoEntry
  badge,            \* textContent of the [data-stat] badge elements
  inflight,         \* per fetcher, network requests awaiting their response
  manualCalls,      \* number of calls of the fetchers through window.OMX (history)
  hasFailed,        \* the fetchers an invocation of which ended in its catch block (history)
  marked,           \* the elements matching '.reveal, [data-reveal]' right now
  snapshot,         \* revealElements, the NodeList setupScrollReveal took (history)
  reports,          \* per element, intersecting entries the observer callback handled (history)
  revealed,         \* the elements whose classList holds "revealed"
  observed,         \* the elements the reveal observer is observing
  ioCalls,          \* calls made to the IntersectionObserver API (history)
  anchorsWired,     \* the click listeners of setupSmoothScroll are attached
  url,              \* the fragment part of the document URL, "" when there is none
  historyLen,       \* number of entries of the session history
  scrollTo,         \* destination of the last scroll the page or the browser started
  loader,           \* the .page-loader overlay: "absent", "shown", "hidden" or "removed"
  uncaught,         \* handlers whose returned promise rejected (error seen by the caller)
  ev                \* the last event the page handled (history)

navVars  == <<scrollDirection, lastScrollY, navVisible, scrollY, navWired, ticking,
              rafQueue, navClasses, dirty, lastCurr>>
menuVars == <<mobileMenuOpen, menuWired, activeEls, bodyOverflow, hamOdd>>
copyVars == <<timers, copyWired, label, copied, writes, handled, outcomes, labelLog>>
statVars == <<cache, badge, inflight, manualCalls, hasFailed>>
revealVars == <<revealed, observed, ioCalls, marked, snapshot, reports>>
anchorVars == <<anchorsWired, url, historyLen, scrollTo>>
loadVars == <<revealVars, anchorVars, loader>>
vars     == <<page, initialized, loadVars, navVars, menuVars, now, copyVars, statVars,
              uncaught, ev>>

----------------------------------------------------------------------------
(* Bounds of the model and program constants                               *)

\* scroll offsets explored: 0 and the offsets within MaxDelta of each threshold
MaxDelta == 1
\* cap of the animation-frame queue (the code never exceeds 1; a queue that
\* could grow needs the cap)
MaxRaf == 3

\* clicks on copy buttons explored (all buttons together)
MaxClicks == 3
\* the copy scenarios run until this time (ms), in steps of CopyTick
CopyMaxTime == 5000
CopyTick == 1000

\* calls of the stat fetchers through window.OMX explored (after those of init)
MaxManualCalls == 1
\* the fetch scenarios run until this time (ms), in steps of StatTick
StatMaxTime == 300000
StatTick == 150000
\* the page-loader scenarios run until this time (ms), in steps of LoadTick
LoadMaxTime == 500
LoadTick == 100

ScrolledThreshold == 50    \* currentScrollY > 50
HideThreshold     == 100   \* currentScrollY > 100

Near(c)  == {c + d : d \in (0 - MaxDelta)..MaxDelta}
Offsets  == {0} \cup Near(ScrolledThreshold) \cup Near(HideThreshold)

Keys     == {"Escape", "Enter"}
NavLinkEls == {"link1", "link2"}   \* the <a> elements inside .nav__links

\* the [data-copy] buttons of the page: b1 and b2 sit in a .code-block with a
\* <code> element, b3 does not
Buttons == {"b1", "b2", "b3"}
HasCode(b) == b # "b3"
OriginalLabel(b) == IF b = "b2" THEN "Copy command" ELSE "Copy"

Fetchers   == {"github", "npm"}
CacheKeys  == {"omx-github-stats", "omx-npm-downloads"}
BadgeNames == {"github-stars", "github-forks", "npm-downloads"}
InitialBadge == "..."   \* what the markup shows before any fetch
Placeholder  == "--"    \* stands for the em dash (U+2014) the code renders

\* the elements the markup marks '.reveal' or '[data-reveal]', and the
\* elements a script of the page may mark later on
RevealEls == {"r1", "r2"}
LateEls   == {"r3"}
Els       == RevealEls \cup LateEls

\* the a[href^="#"] links of the page, by href; #features and #intro name
\* elements of the page, #missing-id does not
Anchors   == {"#", "#features", "#intro", "#missing-id"}
TargetIds == {"#features", "#intro"}
\* where the named elements start, in px from the top of the document
ElementTop(id) == IF id = "#features" THEN 180 ELSE 30
NoScroll  == 0 - 1    \* no scroll was started yet

\* a page: the optional targets its markup holds, and what its browser offers
\* (io: 'IntersectionObserver' in window; clipboard: navigator.clipboard)
AllPages ==
  [nav: BOOLEAN, hamburger: BOOLEAN, navLinks: BOOLEAN, overlay: BOOLEAN,
   loader: BOOLEAN, io: BOOLEAN, clipboard: BOOLEAN, badges: SUBSET BadgeNames]
MenuTargets(p) == p.nav /\ p.hamburger /\ p.navLinks /\ p.overlay
Plain(p) == ~p.loader /\ p.io
\* the pages on which scrolling and the menu are explored
Pages == {p \in AllPages : Plain(p) /\ p.clipboard /\ p.badges = BadgeNames}
\* the pages on which the copy buttons are explored
CopyPages == {p \in AllPages : Plain(p) /\ MenuTargets(p) /\ p.badges = BadgeNames}
\* the pages on which the stat fetchers are explored
StatPages == {p \in AllPages : Plain(p) /\ MenuTargets(p) /\ p.clipboard}
\* the pages on which the reveal observer and the page loader are explored
LoadPages == {p \in AllPages : MenuTargets(p) /\ p.clipboard /\ p.badges = BadgeNames}
\* the pages on which the anchor links are explored
AnchorPages == {p \in AllPages : Plain(p) /\ p.hamburger /\ p.navLinks /\ p.overlay
                                  /\ p.clipboard /\ p.badges = BadgeNames}
\* the pages on which the bootstrapper is explored: every combination of
\* targets and of browser features
BootPages == AllPages

----------------------------------------------------------------------------
(* JavaScript values as the stat fetchers see them                          *)

Undef   == [t |-> "undefined"]
Null    == [t |-> "null"]
Num(n)  == [t |-> "number", v |-> n]
Obj(f)  == [t |-> "object", f |-> f]
NoEntry == [t |-> "none"]     \* sessionStorage.getItem found nothing

\* reading a property of undefined or null throws a TypeError
CanRead(v) == v.t \notin {"undefined", "null"}
\* v.k, for a v that can be read
Get(v, k) == IF v.t = "object" /\ k \in DOMAIN v.f THEN v.f[k] ELSE Undef

RECURSIVE Stringify(_)
\* JSON.stringify, the text being held as the value JSON.parse gives back:
\* properties whose value is undefined are dropped
Stringify(v) ==
  IF v.t = "object"
  THEN Obj([k \in {x \in DOMAIN v.f : v.f[x].t # "undefined"} |-> Stringify(v.f[k])])
  ELSE v

----------------------------------------------------------------------------
(* AppState and the page before DOMContentLoaded                            *)

AppState ==
  /\ initialized = FALSE
  /\ scrollDirection = "down"
  /\ lastScrollY = 0
  /\ navVisible = TRUE
  /\ mobileMenuOpen = FALSE

Loaded(pages) ==
  /\ page \in pages
  /\ AppState
  /\ scrollY = 0
  /\ navWired = FALSE
  /\ ticking = FALSE
  /\ rafQueue = 0
  /\ navClasses = {}
  /\ dirty = FALSE
  /\ lastCurr = 0
  /\ menuWired = FALSE
  /\ activeEls = {}
  /\ bodyOverflow = ""
  /\ hamOdd = FALSE
  /\ now = 0
  /\ timers = <<>>
  /\ copyWired = FALSE
  /\ label = [b \in Buttons |-> OriginalLabel(b)]
  /\ copied = {}
  /\ writes = [b \in Buttons |-> 0]
  /\ handled = [b \in Buttons |-> 0]
  /\ outcomes = [b \in Buttons |-> <<>>]
  /\ labelLog = [b \in Buttons |-> <<>>]
  /\ cache = [k \in CacheKeys |-> NoEntry]
  /\ badge = [n \in BadgeNames |-> InitialBadge]
  /\ inflight = [f \in Fetchers |-> 0]
  /\ manualCalls = 0
  /\ hasFailed = {}
  /\ revealed = {}
  /\ observed = {}
  /\ ioCalls = 0
  /\ marked = RevealEls
  /\ snapshot = {}
  /\ reports = [e \in Els |-> 0]
  /\ anchorsWired = FALSE
  /\ url = ""
  /\ historyLen = 1
  /\ scrollTo = NoScroll
  /\ loader = IF page.loader THEN "shown" ELSE "absent"
  /\ uncaught = {}
  /\ ev = [kind |-> "load", menuWas |-> FALSE, started |-> {}, failed |-> {},
           rendered |-> [f \in Fetchers |-> [t |-> "no call"]],
           cacheWas |-> cache, inflightWas |-> inflight, badgeWas |-> badge]

Init == Loaded(Pages)

\* the record of an event: its kind, and what it found (history)
Event(kind) ==
  [kind |-> kind, menuWas |-> mobileMenuOpen, started |-> {}, failed |-> {},
   rendered |-> [f \in Fetchers |-> [t |-> "no call"]],
   cacheWas |-> cache, inflightWas |-> inflight, badgeWas |-> badge]

----------------------------------------------------------------------------
(* The setup functions the bootstrapper calls                               *)

\* faulty variant: no fallback, the observer is created whatever the browser offers
setupScrollRevealNoFallback ==
  LET revealElements == marked IN
  /\ snapshot' = revealElements
  /\ observed' = observed \cup revealElements
  /\ ioCalls' = ioCalls + 1 + Cardinality(revealElements)
  /\ UNCHANGED <<revealed, marked, reports>>

\* setupScrollReveal: without IntersectionObserver every matched element is
\* revealed at once; with it, one observer is created and observes them all
setupScrollReveal ==
  LET revealElements == marked IN
  /\ snapshot' = revealElements
  /\ IF ~page.io
     THEN /\ revealed' = revealed \cup revealElements
          /\ UNCHANGED <<observed, ioCalls>>
     ELSE /\ observed' = observed \cup revealElements
          /\ ioCalls' = ioCalls + 1 + Cardinality(revealElements)
          /\ UNCHANGED revealed
  /\ UNCHANGED <<marked, reports>>

\* setupFixedNav: returns without attaching anything when .nav is absent
setupFixedNav ==
  /\ navWired' = page.nav
  /\ ticking' = FALSE
  /\ UNCHANGED <<scrollDirection, lastScrollY, navVisible, scrollY, rafQueue,
                 navClasses, dirty, lastCurr>>

\* setupMobileMenu: inert unless both the hamburger and the links container exist
setupMobileMenu ==
  /\ menuWired' = (page.hamburger /\ page.navLinks)
  /\ UNCHANGED <<mobileMenuOpen, activeEls, bodyOverflow, hamOdd>>

\* setupCopyButtons: a click listener on every [data-copy] button
setupCopyButtons ==
  /\ copyWired' = TRUE
  /\ UNCHANGED <<label, copied, writes, handled, outcomes, labelLog>>

\* setupSmoothScroll: a click listener on every a[href^="#"]
setupSmoothScroll ==
  /\ anchorsWired' = TRUE
  /\ UNCHANGED <<url, historyLen, scrollTo>>

LoaderHideDelay   == 100   \* setTimeout(..., 100)
LoaderRemoveDelay == 300   \* setTimeout(() => loader.remove(), 300)

\* a pending timer: what its callback does, and when it is due
Timer(kind, b, due, text, uncopy) ==
  [kind |-> kind, btn |-> b, due |-> due, text |-> text, uncopy |-> uncopy]

\* hidePageLoader: schedules the fade of the overlay, if there is one
hidePageLoader ==
  /\ timers' = IF page.loader
               THEN Append(timers, Timer("loader-hide", "none", now + LoaderHideDelay, "", FALSE))
               ELSE timers
  /\ UNCHANGED loader

----------------------------------------------------------------------------
(* Sticky-nav controller                                                    *)

NavState == [lastScrollY |-> lastScrollY, scrollDirection |-> scrollDirection,
             navVisible |-> navVisible, classes |-> navClasses]

\* faulty variant: the scrolled flag is set from offset 50 on
ScrolledClassAtThreshold(currentScrollY, classes) ==
  IF currentScrollY >= 50
  THEN classes \cup {"scrolled"}
  ELSE classes \ {"scrolled"}

\* "Add scrolled class for styling"
ScrolledClass(currentScrollY, classes) ==
  IF currentScrollY > ScrolledThreshold
  THEN classes \cup {"scrolled"}
  ELSE classes \ {"scrolled"}

\* faulty variant: offset 100 itself already counts as past the hide threshold
IsDownAtThreshold(currentScrollY, last) ==
  currentScrollY > last /\ currentScrollY >= 100

\* "Determine scroll direction"
IsDown(currentScrollY, last) ==
  currentScrollY > last /\ currentScrollY > HideThreshold

\* one run of handleNavScroll on nav state s, window.scrollY being currentScrollY
handleNavScroll(s, currentScrollY) ==
  LET cls == ScrolledClass(currentScrollY, s.classes) IN
  IF IsDown(currentScrollY, s.lastScrollY)
  THEN [lastScrollY |-> currentScrollY, scrollDirection |-> "down",
        navVisible |-> FALSE, classes |-> cls \cup {"hidden"}]
  ELSE [lastScrollY |-> currentScrollY, scrollDirection |-> "up",
        navVisible |-> TRUE, classes |-> cls \ {"hidden"}]

RECURSIVE RunCallbacks(_, _, _)
\* the frame runs the n queued callbacks one after the other
RunCallbacks(n, s, y) ==
  IF n = 0 THEN s ELSE RunCallbacks(n - 1, handleNavScroll(s, y), y)

\* faulty variant: every scroll event requests a frame callback (no ticking check)
ScrollEventNoThrottle(y) ==
  /\ y # scrollY
  /\ scrollY' = y
  /\ IF navWired
     THEN /\ dirty' = TRUE
          /\ rafQueue < MaxRaf
          /\ rafQueue' = rafQueue + 1
          /\ ticking' = TRUE
     ELSE UNCHANGED <<dirty, rafQueue, ticking>>
  /\ ev' = Event("scroll") @@ [coalesced |-> navWired /\ ticking]
  /\ UNCHANGED <<page, initialized, loadVars, scrollDirection, lastScrollY, navVisible, navWired,
                 navClasses, lastCurr, menuVars, now, copyVars, statVars, uncaught>>

\* the window scrolls to offset y and the scroll event is dispatched
ScrollEvent(y) ==
  /\ y # scrollY
  /\ scrollY' = y
  /\ IF navWired
     THEN /\ dirty' = TRUE
          /\ IF ~ticking
             THEN /\ rafQueue < MaxRaf
                  /\ rafQueue' = rafQueue + 1
                  /\ ticking' = TRUE
             ELSE UNCHANGED <<rafQueue, ticking>>
     ELSE UNCHANGED <<dirty, rafQueue, ticking>>
  /\ ev' = Event("scroll") @@ [coalesced |-> navWired /\ ticking]
  /\ UNCHANGED <<page, initialized, loadVars, scrollDirection, lastScrollY, navVisible, navWired,
                 navClasses, lastCurr, menuVars, now, copyVars, statVars, uncaught>>

\* the browser renders a frame: every queued callback runs handleNavScroll and
\* then clears ticking
AnimationFrame ==
  /\ rafQueue > 0
  /\ LET s == RunCallbacks(rafQueue, NavState, scrollY) IN
       /\ lastScrollY' = s.lastScrollY
       /\ scrollDirection' = s.scrollDirection
       /\ navVisible' = s.navVisible
       /\ navClasses' = s.classes
  /\ ticking' = FALSE
  /\ rafQueue' = 0
  /\ dirty' = FALSE
  /\ lastCurr' = scrollY
  /\ ev' = Event("frame") @@ [updates |-> rafQueue, curr |-> scrollY, prev |-> lastCurr]
  /\ UNCHANGED <<page, initialized, loadVars, scrollY, navWired, menuVars, now, copyVars, statVars, uncaught>>

----------------------------------------------------------------------------
(* Mobile menu controller                                                   *)

overlayEl == IF page.overlay THEN {"overlay"} ELSE {}

openMobileMenu ==
  /\ activeEls' = activeEls \cup {"navLinks", "hamburger"} \cup overlayEl
  /\ bodyOverflow' = "hidden"
  /\ mobileMenuOpen' = TRUE

\* faulty variant: closing leaves the page body locked
closeMobileMenuKeepsOverflow ==
  /\ activeEls' = (activeEls \ {"navLinks", "hamburger"}) \ overlayEl
  /\ bodyOverflow' = bodyOverflow
  /\ mobileMenuOpen' = FALSE

closeMobileMenu ==
  /\ activeEls' = (activeEls \ {"navLinks", "hamburger"}) \ overlayEl
  /\ bodyOverflow' = ""
  /\ mobileMenuOpen' = FALSE

toggleMobileMenu ==
  IF mobileMenuOpen THEN closeMobileMenu ELSE openMobileMenu

\* a click on .nav__hamburger
HamburgerClick ==
  /\ page.hamburger
  /\ IF menuWired
     THEN toggleMobileMenu /\ hamOdd' = ~hamOdd
     ELSE UNCHANGED <<mobileMenuOpen, activeEls, bodyOverflow, hamOdd>>
  /\ ev' = Event("hamburger")
  /\ UNCHANGED <<page, initialized, loadVars, navVars, menuWired, now, copyVars, statVars, uncaught>>

\* a click on .nav__overlay
OverlayClick ==
  /\ page.overlay
  /\ IF menuWired
     THEN closeMobileMenu /\ hamOdd' = FALSE
     ELSE UNCHANGED <<mobileMenuOpen, activeEls, bodyOverflow, hamOdd>>
  /\ ev' = Event("overlay")
  /\ UNCHANGED <<page, initialized, loadVars, navVars, menuWired, now, copyVars, statVars, uncaught>>

\* a click on one of the links inside .nav__links
NavLinkClick(l) ==
  /\ page.navLinks
  /\ IF menuWired
     THEN closeMobileMenu /\ hamOdd' = FALSE
     ELSE UNCHANGED <<mobileMenuOpen, activeEls, bodyOverflow, hamOdd>>
  /\ ev' = Event("link") @@ [link |-> l]
  /\ UNCHANGED <<page, initialized, loadVars, navVars, menuWired, now, copyVars, statVars, uncaught>>

\* faulty variant: the keydown listener does not look at the key
KeyDownAnyKey(key) ==
  /\ IF menuWired /\ mobileMenuOpen
     THEN closeMobileMenu
     ELSE UNCHANGED <<mobileMenuOpen, activeEls, bodyOverflow>>
  /\ hamOdd' = IF menuWired /\ key = "Escape" THEN FALSE ELSE hamOdd
  /\ ev' = Event("keydown") @@ [key |-> key]
  /\ UNCHANGED <<page, initialized, loadVars, navVars, menuWired, now, copyVars, statVars, uncaught>>

\* a keydown on the document
KeyDown(key) ==
  /\ IF menuWired /\ key = "Escape" /\ mobileMenuOpen
     THEN closeMobileMenu
     ELSE UNCHANGED <<mobileMenuOpen, activeEls, bodyOverflow>>
  /\ hamOdd' = IF menuWired /\ key = "Escape" THEN FALSE ELSE hamOdd
  /\ ev' = Event("keydown") @@ [key |-> key]
  /\ UNCHANGED <<page, initialized, loadVars, navVars, menuWired, now, copyVars, statVars, uncaught>>

----------------------------------------------------------------------------
(* Reveal-on-scroll                                                         *)

\* intersecting entries handled per element: the cap of the exploration (the
\* code never exceeds 1; an observer that kept observing needs the cap)
MaxReports == 2

\* a script of the page marks one more element for reveal
MarkElement(e) ==
  /\ e \notin marked
  /\ marked' = marked \cup {e}
  /\ ev' = Event("mark") @@ [el |-> e]
  /\ UNCHANGED <<page, initialized, revealed, observed, ioCalls, snapshot, reports,
                 anchorVars, loader, navVars, menuVars, now, copyVars, statVars, uncaught>>

\* faulty variant: the callback reveals the target and keeps observing it
IntersectKeepsObserving(targets, hits) ==
  /\ targets # {} /\ targets \subseteq observed /\ hits \subseteq targets
  /\ \A e \in hits : reports[e] < MaxReports
  /\ revealed' = revealed \cup hits
  /\ reports' = [e \in Els |-> IF e \in hits THEN reports[e] + 1 ELSE reports[e]]
  /\ ev' = Event("intersect") @@ [targets |-> targets, hits |-> hits,
                                  revealedWas |-> revealed, observedWas |-> observed]
  /\ UNCHANGED <<page, initialized, observed, ioCalls, marked, snapshot, anchorVars, loader,
                 navVars, menuVars, now, copyVars, statVars, uncaught>>

\* the observer callback runs with one entry per target of targets, a subset
\* of the elements it observes; the entries of hits have isIntersecting
Intersect(targets, hits) ==
  /\ targets # {} /\ targets \subseteq observed /\ hits \subseteq targets
  /\ \A e \in hits : reports[e] < MaxReports
  /\ revealed' = revealed \cup hits
  /\ observed' = observed \ hits
  /\ ioCalls' = ioCalls + Cardinality(hits)
  /\ reports' = [e \in Els |-> IF e \in hits THEN reports[e] + 1 ELSE reports[e]]
  /\ ev' = Event("intersect") @@ [targets |-> targets, hits |-> hits,
                                  revealedWas |-> revealed, observedWas |-> observed]
  /\ UNCHANGED <<page, initialized, marked, snapshot, anchorVars, loader,
                 navVars, menuVars, now, copyVars, statVars, uncaught>>

----------------------------------------------------------------------------
(* Smooth-anchor-scroll controller                                          *)

headerOffset == 80
\* session-history entries explored
MaxHistory == 3

\* window.scrollTo keeps the offset inside the document
Clamp(y) == IF y < 0 THEN 0 ELSE y

\* the click handler did not call preventDefault: the browser navigates to
\* the fragment. The URL takes the href (a new history entry unless it is the
\* URL already); the window goes to the element the fragment names, to the
\* top for the empty fragment, nowhere when the fragment names nothing
FragmentNavigation(href) ==
  /\ url' = href
  /\ historyLen' = IF href = url THEN historyLen ELSE historyLen + 1
  /\ scrollTo' = IF href = "#" THEN 0
                 ELSE IF href \in TargetIds THEN ElementTop(href)
                 ELSE scrollTo

\* what a click on a link found (history)
AnchorEvent(href, prevented) ==
  Event("anchor") @@ [href |-> href, prevented |-> prevented, urlWas |-> url,
                      historyWas |-> historyLen, scrollToWas |-> scrollTo,
                      scrollYWas |-> scrollY]

\* a click on the link with this href
AnchorClick(href) ==
  LET targetId == href
      found == targetId \in TargetIds     \* document.querySelector(targetId)
      intercepted == anchorsWired /\ targetId # "#" /\ found
  IN
  /\ historyLen < MaxHistory
  /\ IF intercepted
     THEN LET elementPosition == ElementTop(targetId) - scrollY
              offsetPosition == elementPosition + scrollY - headerOffset
          IN  /\ scrollTo' = Clamp(offsetPosition)
              /\ url' = targetId
              /\ historyLen' = historyLen + 1
     ELSE FragmentNavigation(href)
  /\ ev' = AnchorEvent(href, intercepted)
  /\ UNCHANGED <<page, initialized, revealVars, anchorsWired, loader, navVars, menuVars,
                 now, copyVars, statVars, uncaught>>

\* the scroll the page or the browser started reaches its destination
ScrollArrives ==
  /\ scrollTo # NoScroll
  /\ ScrollEvent(scrollTo)

----------------------------------------------------------------------------
(* Timers and the clock                                                     *)

\* the pending timer that fires next: earliest due time, earliest scheduled
\* among equals
NextTimer ==
  CHOOSE i \in 1..Len(timers) :
    \A j \in 1..Len(timers) :
      timers[i].due < timers[j].due \/ (timers[i].due = timers[j].due /\ i <= j)

RemoveAt(s, i) == SubSeq(s, 1, i - 1) \o SubSeq(s, i + 1, Len(s))

Min(S) == CHOOSE m \in S : \A n \in S : m <= n

\* time passes: by step, but not beyond the next due timer nor the limit
Tick(step, limit) ==
  /\ now < limit
  /\ timers # <<>> => now < timers[NextTimer].due
  /\ now' = Min({now + step, limit}
                \cup (IF timers # <<>> THEN {timers[NextTimer].due} ELSE {}))
  /\ ev' = Event("tick")
  /\ UNCHANGED <<page, initialized, loadVars, navVars, menuVars, copyVars, statVars, uncaught>>

----------------------------------------------------------------------------
(* Copy-to-clipboard controller                                             *)

CopiedDelay == 2000   \* setTimeout(..., 2000) of the success path
FailedDelay == 2000   \* setTimeout(..., 2000) of the catch path

Logged(b, text, isCopied) ==
  [labelLog EXCEPT ![b] = Append(@, [at |-> now, text |-> text, copied |-> isCopied])]

\* faulty variant: the success path restores the literal "Copy", as the catch path does
CopySucceededRestoresCopy(b) ==
  /\ label' = [label EXCEPT ![b] = "Copied!"]
  /\ copied' = copied \cup {b}
  /\ timers' = Append(timers, Timer("restore", b, now + CopiedDelay, "Copy", TRUE))
  /\ labelLog' = Logged(b, "Copied!", TRUE)
  /\ outcomes' = [outcomes EXCEPT ![b] = Append(@, "ok")]
  /\ UNCHANGED uncaught

\* the try block after the await: "Visual feedback"
CopySucceeded(b) ==
  LET originalText == label[b] IN
  /\ label' = [label EXCEPT ![b] = "Copied!"]
  /\ copied' = copied \cup {b}
  /\ timers' = Append(timers, Timer("restore", b, now + CopiedDelay, originalText, TRUE))
  /\ labelLog' = Logged(b, "Copied!", TRUE)
  /\ outcomes' = [outcomes EXCEPT ![b] = Append(@, "ok")]
  /\ UNCHANGED uncaught

\* faulty variant: no catch block, the rejection leaves the handler
CopyFailedUncaught(b) ==
  /\ uncaught' = uncaught \cup {"copy"}
  /\ outcomes' = [outcomes EXCEPT ![b] = Append(@, "failed")]
  /\ UNCHANGED <<label, copied, timers, labelLog>>

\* the catch block
CopyFailed(b) ==
  /\ label' = [label EXCEPT ![b] = "Failed"]
  /\ timers' = Append(timers, Timer("restore", b, now + FailedDelay, "Copy", FALSE))
  /\ labelLog' = Logged(b, "Failed", b \in copied)
  /\ outcomes' = [outcomes EXCEPT ![b] = Append(@, "failed")]
  /\ UNCHANGED <<copied, uncaught>>

Sum(f) == f["b1"] + f["b2"] + f["b3"]

\* a click on copy button b: the handler runs up to its await
Click(b) ==
  /\ Sum(handled) < MaxClicks
  /\ IF copyWired /\ HasCode(b)
     THEN /\ handled' = [handled EXCEPT ![b] = @ + 1]
          /\ IF page.clipboard
             THEN \* navigator.clipboard.writeText(...) is pending
                  /\ writes' = [writes EXCEPT ![b] = @ + 1]
                  /\ UNCHANGED <<timers, label, copied, outcomes, labelLog, uncaught>>
             ELSE \* navigator.clipboard is undefined: TypeError inside the try
                  /\ now + FailedDelay <= CopyMaxTime
                  /\ CopyFailed(b)
                  /\ UNCHANGED writes
     ELSE UNCHANGED <<timers, label, copied, writes, handled, outcomes, labelLog, uncaught>>
  /\ ev' = Event("click") @@ [btn |-> b]
  /\ UNCHANGED <<page, initialized, loadVars, navVars, menuVars, now, copyWired, statVars>>

\* the clipboard write of a click on b settles and the handler resumes
WriteSettled(b, ok) ==
  /\ writes[b] > 0
  /\ now + CopiedDelay <= CopyMaxTime
  /\ now + FailedDelay <= CopyMaxTime
  /\ writes' = [writes EXCEPT ![b] = @ - 1]
  /\ IF ok THEN CopySucceeded(b) ELSE CopyFailed(b)
  /\ ev' = Event("settled") @@ [btn |-> b, ok |-> ok]
  /\ UNCHANGED <<page, initialized, loadVars, navVars, menuVars, now, copyWired, handled, statVars>>

\* the next due timer callback runs
TimerFired ==
  /\ timers # <<>>
  /\ LET i == NextTimer
         t == timers[i] IN
       /\ t.due <= now
       /\ CASE t.kind = "restore" ->
                 /\ label' = [label EXCEPT ![t.btn] = t.text]
                 /\ copied' = IF t.uncopy THEN copied \ {t.btn} ELSE copied
                 /\ timers' = RemoveAt(timers, i)
                 /\ labelLog' = Logged(t.btn, t.text, t.btn \in copied')
                 /\ UNCHANGED loader
            [] t.kind = "loader-hide" ->
                 /\ loader' = "hidden"
                 /\ timers' = Append(RemoveAt(timers, i),
                                     Timer("loader-remove", "none", now + LoaderRemoveDelay, "", FALSE))
                 /\ UNCHANGED <<label, copied, labelLog>>
            [] OTHER ->
                 /\ loader' = "removed"
                 /\ timers' = RemoveAt(timers, i)
                 /\ UNCHANGED <<label, copied, labelLog>>
       /\ ev' = Event("timer") @@ [btn |-> t.btn]
  /\ UNCHANGED <<page, initialized, revealVars, anchorVars, navVars,
                 menuVars, now, copyWired, writes, handled, outcomes, statVars, uncaught>>

----------------------------------------------------------------------------
(* Number formatting                                                        *)

RECURSIVE BitLen(_)
BitLen(n) == IF n = 0 THEN 0 ELSE 1 + BitLen(n \div 2)

\* 2^e mod 5
Pow2Mod5(e) == CASE e % 4 = 0 -> 1 [] e % 4 = 1 -> 2 [] e % 4 = 2 -> 4 [] OTHER -> 3

\* n/d lies exactly half way between two one-decimal numbers, so n/d = q/20
\* for the odd q given. Whether toFixed(1) then goes up is decided by the
\* double nearest to q/20: exact when 5 divides q (toFixed takes the larger
\* candidate), otherwise above q/20 iff the part of q/5 cut off after 53
\* significant bits exceeds one half.
HalfGoesUp(q) ==
  \/ q % 5 = 0
  \/ ((Pow2Mod5(53 - BitLen(q \div 5)) * (q % 5)) % 5) \in {3, 4}

\* faulty variant: the digits after the first decimal are cut off
TenthsTruncated(n, d) ==
  (n \div d) * 10 + ((n % d) * 10) \div d

\* the number of tenths (n / d).toFixed(1) shows, for 1 <= n/d
Tenths(n, d) ==
  LET whole == n \div d
      rest  == n % d
      down  == whole * 10 + (rest * 10) \div d
      left  == (rest * 10) % d
  IN  IF 2 * left > d THEN down + 1
      ELSE IF 2 * left < d THEN down
      ELSE IF HalfGoesUp(2 * down + 1) THEN down + 1 ELSE down

\* (n / d).toFixed(1)
ToFixed1(n, d) ==
  LET t == Tenths(n, d) IN ToString(t \div 10) \o "." \o ToString(t % 10)

\* formatNumber(num): the text, or threw when num has no toString to call
formatNumber(num) ==
  CASE num.t = "number" ->
         [threw |-> FALSE,
          text  |-> IF num.v >= 1000000 THEN ToFixed1(num.v, 1000000) \o "M"
                    ELSE IF num.v >= 1000 THEN ToFixed1(num.v, 1000) \o "k"
                    ELSE ToString(num.v)]
    [] num.t = "object" -> [threw |-> FALSE, text |-> "[object Object]"]
    [] OTHER -> [threw |-> TRUE, text |-> ""]

----------------------------------------------------------------------------
(* Stat fetchers                                                            *)

cacheTTL == 5 * 60 * 1000

\* faulty variant: both fetchers store their entry under one key
CacheKeyShared(f) == "omx-github-stats"

CacheKey(f) == IF f = "github" THEN "omx-github-stats" ELSE "omx-npm-downloads"
BadgesOf(f) == IF f = "github" THEN {"github-stars", "github-forks"} ELSE {"npm-downloads"}

Threw(b) == [threw |-> TRUE, badge |-> b]
Done(b)  == [threw |-> FALSE, badge |-> b]

\* el.textContent = v !== null ? formatNumber(v) : placeholder, when el exists
SetBadge(name, v, b) ==
  IF name \notin page.badges THEN Done(b)
  ELSE IF v = Null THEN Done([b EXCEPT ![name] = Placeholder])
  ELSE LET r == formatNumber(v) IN
       IF r.threw THEN Threw(b) ELSE Done([b EXCEPT ![name] = r.text])

\* one badge of updateGitHubUI: stats.<field> is read only when the badge exists
SetStat(name, stats, field, b) ==
  IF name \notin page.badges THEN Done(b)
  ELSE IF ~CanRead(stats) THEN Threw(b)
  ELSE SetBadge(name, Get(stats, field), b)

updateGitHubUI(stats, b) ==
  LET r == SetStat("github-stars", stats, "stars", b) IN
  IF r.threw THEN r ELSE SetStat("github-forks", stats, "forks", r.badge)

updateNpmUI(downloads, b) == SetBadge("npm-downloads", downloads, b)

\* the render call of the try block, on the data of fetcher f
Render(f, data, b) ==
  IF f = "github" THEN updateGitHubUI(data, b) ELSE updateNpmUI(data, b)

\* faulty variant: the catch block of the GitHub fetcher resets the stars badge only
RenderFailureStarsOnly(f, b) ==
  IF f = "github"
  THEN updateGitHubUI(Obj([stars |-> Null]), b).badge
  ELSE updateNpmUI(Null, b).badge

\* the render call of the catch block
RenderFailure(f, b) ==
  IF f = "github"
  THEN updateGitHubUI(Obj([stars |-> Null, forks |-> Null]), b).badge
  ELSE updateNpmUI(Null, b).badge

\* faulty variant: an entry exactly cacheTTL old still counts as fresh
IsFreshInclusive(timestamp) ==
  timestamp.t = "number" /\ now - timestamp.v <= cacheTTL

\* Date.now() - timestamp < cacheTTL (never true of a missing timestamp: NaN)
IsFresh(timestamp) ==
  timestamp.t = "number" /\ now - timestamp.v < cacheTTL

\* what the response body gives fetcher f to cache and render; threw when
\* the body is null
Extract(f, data) ==
  IF ~CanRead(data) THEN [threw |-> TRUE, value |-> Undef]
  ELSE IF f = "github"
  THEN [threw |-> FALSE,
        value |-> Obj([stars |-> Get(data, "stargazers_count"),
                       forks |-> Get(data, "forks_count")])]
  ELSE [threw |-> FALSE, value |-> Get(data, "downloads")]

NotRendered == [t |-> "no call"]

\* the state the fetchers act on, and what an invocation did (history): the
\* data its try block handed to the render call, and whether it failed
StatState == [cache |-> cache, badge |-> badge, inflight |-> inflight,
              rendered |-> [f \in Fetchers |-> NotRendered], failed |-> {}]

\* an invocation of fetcher f, up to its return or its first await
Started(f, s) ==
  LET cached == s.cache[CacheKey(f)] IN
  IF cached # NoEntry /\ IsFresh(Get(cached, "timestamp"))
  THEN LET data == Get(cached, "data")
           r == Render(f, data, s.badge) IN
       IF r.threw
       THEN [s EXCEPT !.badge = RenderFailure(f, r.badge), !.failed = @ \cup {f},
                      !.rendered[f] = data]
       ELSE [s EXCEPT !.badge = r.badge, !.rendered[f] = data]
  ELSE [s EXCEPT !.inflight[f] = @ + 1]

\* faulty variant: the catch block sends the request once more
SettledRetries(f, resp, s) ==
  LET caught(b) == [s EXCEPT !.badge = RenderFailure(f, b), !.failed = @ \cup {f}]
  IN
  IF resp.kind # "json" THEN caught(s.badge)
  ELSE LET x == Extract(f, resp.body) IN
       IF x.threw THEN caught(s.badge)
       ELSE LET entry == Stringify(Obj([data |-> x.value, timestamp |-> Num(now)]))
                r == Render(f, x.value, s.badge)
            IN  IF r.threw
                THEN [caught(r.badge) EXCEPT !.cache[CacheKey(f)] = entry,
                                             !.rendered[f] = x.value]
                ELSE [s EXCEPT !.inflight[f] = @ - 1, !.badge = r.badge,
                               !.cache[CacheKey(f)] = entry, !.rendered[f] = x.value]

\* the continuation of fetcher f once its request settled with resp
Settled(f, resp, s) ==
  LET caught(b) == [s EXCEPT !.inflight[f] = @ - 1, !.badge = RenderFailure(f, b),
                             !.failed = @ \cup {f}]
  IN
  IF resp.kind # "json" THEN caught(s.badge)
  ELSE LET x == Extract(f, resp.body) IN
       IF x.threw THEN caught(s.badge)
       ELSE LET entry == Stringify(Obj([data |-> x.value, timestamp |-> Num(now)]))
                r == Render(f, x.value, s.badge)
            IN  IF r.threw
                THEN [caught(r.badge) EXCEPT !.cache[CacheKey(f)] = entry,
                                             !.rendered[f] = x.value]
                ELSE [s EXCEPT !.inflight[f] = @ - 1, !.badge = r.badge,
                               !.cache[CacheKey(f)] = entry, !.rendered[f] = x.value]

Responses(f, bodies) ==
  {[kind |-> k, body |-> Undef] : k \in {"neterror", "status", "badjson"}}
    \cup {[kind |-> "json", body |-> d] : d \in bodies}

StarVals     == {Undef, Num(1500)}
ForkVals     == {Undef, Num(999)}
DownloadVals == {Undef, Null, Num(2500000)}

Bodies(f) ==
  {Null} \cup
  (IF f = "github"
   THEN {Stringify(Obj([stargazers_count |-> a, forks_count |-> b])) :
           a \in StarVals, b \in ForkVals}
   ELSE {Stringify(Obj([downloads |-> a])) : a \in DownloadVals})

\* the counts the formatting is explored on: every count up to MaxPlain,
\* and around every multiple of a twentieth of a thousand and of a million
\* (the one-decimal values and the points half way between them) up to
\* MaxTwentieths of them, and around the step from "k" to "M"
MaxPlain == 1100
MaxTwentieths == 200
MaxAround == 100
FormatNumbers ==
  (0..MaxPlain)
    \cup {u * 50 + d : u \in 20..MaxTwentieths, d \in {0 - 1, 0, 1}}
    \cup {u * 50000 + d : u \in 20..MaxTwentieths, d \in {0 - 1, 0, 1}}
    \cup ((1000000 - MaxAround)..(1000000 + MaxAround))

FormatBodies(f) ==
  IF f = "github"
  THEN {Obj([stargazers_count |-> a, forks_count |-> b]) :
          a \in {Null, Num(999), Num(1500)}, b \in {Null, Num(2500000)}}
  ELSE {Obj([downloads |-> a]) : a \in {Null} \cup {Num(n) : n \in FormatNumbers}}

\* window.OMX.fetchGitHubStats() / window.OMX.fetchNpmDownloads(), called by hand
ManualFetch(f) ==
  /\ manualCalls < MaxManualCalls
  /\ LET s == Started(f, StatState) IN
       /\ badge' = s.badge
       /\ inflight' = s.inflight
       /\ hasFailed' = hasFailed \cup s.failed
       /\ ev' = [Event("fetch") EXCEPT !.started = {f}, !.failed = s.failed,
                                       !.rendered = s.rendered]
  /\ manualCalls' = manualCalls + 1
  /\ UNCHANGED <<page, initialized, loadVars, navVars, menuVars, now, copyVars, cache, uncaught>>

fetchGitHubStats == ManualFetch("github")
fetchNpmDownloads == ManualFetch("npm")

\* the request of fetcher f settles
Response(f, resp) ==
  /\ inflight[f] > 0
  /\ LET s == Settled(f, resp, StatState) IN
       /\ cache' = s.cache
       /\ badge' = s.badge
       /\ inflight' = s.inflight
       /\ hasFailed' = hasFailed \cup s.failed
       /\ ev' = [Event("response") EXCEPT !.failed = s.failed, !.rendered = s.rendered]
                  @@ [fetcher |-> f, resp |-> resp]
  /\ UNCHANGED <<page, initialized, loadVars, navVars, menuVars, now, copyVars, manualCalls, uncaught>>

----------------------------------------------------------------------------
(* Bootstrapper                                                             *)

\* faulty variant: no initialized check, every call is a full pass
initEveryCall ==
  /\ setupScrollReveal
  /\ setupFixedNav
  /\ setupMobileMenu
  /\ setupCopyButtons
  /\ setupSmoothScroll
  /\ hidePageLoader
  /\ LET s == Started("npm", Started("github", StatState)) IN
       /\ badge' = s.badge
       /\ inflight' = s.inflight
       /\ hasFailed' = hasFailed \cup s.failed
       /\ ev' = [Event("init") EXCEPT !.started = Fetchers, !.failed = s.failed,
                                      !.rendered = s.rendered]
  /\ initialized' = TRUE
  /\ UNCHANGED <<page, now, cache, manualCalls, uncaught>>

\* faulty variant: setupFixedNav uses .nav without looking whether it exists,
\* and its TypeError ends the pass on a page without one
initNeedsNav ==
  IF initialized
  THEN /\ ev' = Event("init-noop")
       /\ UNCHANGED <<page, initialized, loadVars, navVars, menuVars, now, copyVars, statVars, uncaught>>
  ELSE IF ~page.nav
  THEN /\ setupScrollReveal
       /\ uncaught' = uncaught \cup {"init"}
       /\ ev' = Event("init")
       /\ UNCHANGED <<page, initialized, anchorVars, loader, navVars, menuVars, now, copyVars, statVars>>
  ELSE initEveryCall

init ==
  IF initialized
  THEN /\ ev' = Event("init-noop")
       /\ UNCHANGED <<page, initialized, loadVars, navVars, menuVars, now, copyVars, statVars, uncaught>>
  ELSE /\ setupScrollReveal
       /\ setupFixedNav
       /\ setupMobileMenu
       /\ setupCopyButtons
       /\ setupSmoothScroll
       /\ hidePageLoader
       /\ LET s == Started("npm", Started("github", StatState)) IN
            /\ badge' = s.badge
            /\ inflight' = s.inflight
            /\ hasFailed' = hasFailed \cup s.failed
            /\ ev' = [Event("init") EXCEPT !.started = Fetchers, !.failed = s.failed,
                                           !.rendered = s.rendered]
       /\ initialized' = TRUE
       /\ UNCHANGED <<page, now, cache, manualCalls, uncaught>>

----------------------------------------------------------------------------
(* The page: bootstrap, scrolling and the mobile menu                       *)

Next ==
  \/ init
  \/ \E y \in Offsets : ScrollEvent(y)
  \/ AnimationFrame
  \/ HamburgerClick
  \/ OverlayClick
  \/ \E l \in NavLinkEls : NavLinkClick(l)
  \/ \E key \in Keys : KeyDown(key)

Spec == Init /\ [][Next]_vars

\* the browser keeps rendering frames while the page is shown
FairSpec == Spec /\ WF_vars(AnimationFrame)

\* The page: bootstrap and the copy buttons, with the clock
InitCopy == Loaded(CopyPages)

NextCopy ==
  \/ init
  \/ \E b \in Buttons : Click(b)
  \/ \E b \in Buttons, ok \in BOOLEAN : WriteSettled(b, ok)
  \/ TimerFired
  \/ Tick(CopyTick, CopyMaxTime)

SpecCopy == InitCopy /\ [][NextCopy]_vars

\* The page: bootstrap and the stat fetchers, with the clock
InitStats == Loaded(StatPages)

NextStats ==
  \/ init
  \/ fetchGitHubStats
  \/ fetchNpmDownloads
  \/ \E f \in Fetchers : \E resp \in Responses(f, Bodies(f)) : Response(f, resp)
  \/ Tick(StatTick, StatMaxTime)

SpecStats == InitStats /\ [][NextStats]_vars

\* The page: bootstrap, the reveal observer and the page loader, with the clock
InitLoad == Loaded(LoadPages)

NextLoad ==
  \/ init
  \/ \E e \in LateEls : MarkElement(e)
  \/ \E targets \in SUBSET Els : \E hits \in SUBSET targets : Intersect(targets, hits)
  \/ TimerFired
  \/ Tick(LoadTick, LoadMaxTime)

SpecLoad == InitLoad /\ [][NextLoad]_vars

\* The page: bootstrap, the anchor links and the scrolls they start
InitAnchor == Loaded(AnchorPages)

NextAnchor ==
  \/ init
  \/ \E href \in Anchors : AnchorClick(href)
  \/ ScrollArrives
  \/ AnimationFrame

SpecAnchor == InitAnchor /\ [][NextAnchor]_vars

\* The page: bootstrap on every kind of page, and the two responses
InitBoot == Loaded(BootPages)

NextBoot ==
  \/ init
  \/ \E f \in Fetchers : \E resp \in Responses(f, Bodies(f)) : Response(f, resp)

SpecBoot == InitBoot /\ [][NextBoot]_vars

\* The page: bootstrap with every badge present, and responses that carry
\* the counts to format
FormatPages == {p \in StatPages : p.badges = BadgeNames}
InitFormat == Loaded(FormatPages)

NextFormat ==
  \/ init
  \/ \E f \in Fetchers : \E body \in FormatBodies(f) :
       Response(f, [kind |-> "json", body |-> body])

SpecFormat == InitFormat /\ [][NextFormat]_vars

----------------------------------------------------------------------------
(* Claims about the mobile menu and the sticky nav                          *)

CloseForcing == ev.kind \in {"overlay", "link"} \/ (ev.kind = "keydown" /\ ev.key = "Escape")

\* C7: the mobile menu is a two-state machine that starts closed; once its
\* listeners are attached a hamburger click toggles it, an overlay click, a
\* nav-link click or Escape leaves it closed whatever it was, every other
\* event leaves it as it was, and it is open exactly when the number of
\* hamburger clicks since the last close-forcing event is odd.
C7_MenuStateMachine ==
  /\ ~initialized => ~mobileMenuOpen
  /\ ~menuWired => ~mobileMenuOpen
  /\ menuWired =>
       /\ mobileMenuOpen <=> hamOdd
       /\ ev.kind = "hamburger" => mobileMenuOpen = ~ev.menuWas
       /\ CloseForcing => ~mobileMenuOpen
       /\ (ev.kind # "hamburger" /\ ~CloseForcing) => mobileMenuOpen = ev.menuWas

\* C7 witness: Escape closed a menu that a hamburger click had opened
C7_Witness ==
  menuWired /\ ev.kind = "keydown" /\ ev.key = "Escape" /\ ev.menuWas /\ ~mobileMenuOpen

\* the nav state mirrors the current offset whenever no delivered scroll
\* event is waiting for its update
NavSafe ==
  /\ rafQueue <= 1
  /\ ticking <=> rafQueue = 1
  /\ ev.kind = "frame" => ev.updates = 1
  /\ dirty => rafQueue = 1

\* C8: at most one frame callback is pending at any time, a frame processes
\* at most one nav update, and every delivered scroll event is followed by a
\* nav update that uses the offset current when it runs.
C8_FrameThrottle ==
  /\ []NavSafe
  /\ dirty ~> (~dirty /\ ev.kind = "frame" /\ lastScrollY = scrollY)

\* C8 witness: a scroll event arrived while a frame callback was already
\* pending, and was coalesced into it
C8_Witness ==
  ev.kind = "scroll" /\ ev.coalesced /\ dirty /\ rafQueue = 1 /\ scrollY # lastScrollY

\* C9: a processed update with offset curr and previously processed offset
\* prev sets direction down and hides the nav iff curr > prev and curr > 100,
\* sets direction up and shows the nav otherwise, and stores curr as prev.
C9_Direction ==
  (ev.kind = "frame" /\ ev.updates = 1) =>
    /\ IF ev.curr > ev.prev /\ ev.curr > 100
       THEN scrollDirection = "down" /\ "hidden" \in navClasses /\ ~navVisible
       ELSE scrollDirection = "up" /\ "hidden" \notin navClasses /\ navVisible
    /\ lastScrollY = ev.curr

\* C9 witness: an update at offset 100 coming from below is classified up
C9_Witness ==
  /\ ev.kind = "frame" /\ ev.updates = 1 /\ ev.curr = 100 /\ ev.prev < 100
  /\ scrollDirection = "up" /\ navVisible

\* C10: after a processed update with offset s the nav carries the scrolled
\* flag iff s > 50, whatever the previous offset and the direction.
C10_Scrolled ==
  (ev.kind = "frame" /\ ev.updates >= 1) => ("scrolled" \in navClasses <=> ev.curr > 50)

\* C10 witness: the flag is set on a downward update and (at offset 50)
\* cleared on another one; this is the downward one
C10_Witness ==
  /\ ev.kind = "frame" /\ ev.curr > 100 /\ scrollDirection = "down"
  /\ "scrolled" \in navClasses

----------------------------------------------------------------------------
(* Claims about the copy buttons                                            *)

TimersOf(b) == {i \in 1..Len(timers) : timers[i].btn = b}

\* C4: at any time at most one label restore is pending per button, and the
\* pending restore is the one of the last click: it is due 2000 ms after the
\* last feedback label was set. The code never cancels a timer and breaks
\* this.
C4_OneRestorePending ==
  \A b \in Buttons :
    /\ Cardinality(TimersOf(b)) <= 1
    /\ \A i \in TimersOf(b) :
         timers[i].due = labelLog[b][Len(labelLog[b])].at + 2000

\* C5: after a single click whose clipboard write succeeded the label is
\* "Copied!" with the copied mark until 2000 ms later, when the original
\* label is back and the mark is cleared; no other label is ever assigned.
C5_SingleSuccess ==
  \A b \in Buttons :
    handled[b] = 1 =>
      /\ outcomes[b] = <<>> =>
           label[b] = OriginalLabel(b) /\ labelLog[b] = <<>> /\ b \notin copied
      /\ outcomes[b] = <<"ok">> =>
           LET L == labelLog[b] IN
           /\ Len(L) \in {1, 2}
           /\ L[1].text = "Copied!" /\ L[1].copied
           /\ Len(L) = 1 =>
                /\ label[b] = "Copied!" /\ b \in copied
                /\ now <= L[1].at + 2000
                /\ \E i \in TimersOf(b) : timers[i].due = L[1].at + 2000
           /\ Len(L) = 2 =>
                /\ L[2] = [at |-> L[1].at + 2000, text |-> OriginalLabel(b), copied |-> FALSE]
                /\ label[b] = OriginalLabel(b) /\ b \notin copied
                /\ TimersOf(b) = {}

\* C5 witness: the button labelled "Copy command" went through "Copied!" and
\* has its own label back
C5_Witness ==
  /\ handled["b2"] = 1 /\ outcomes["b2"] = <<"ok">>
  /\ Len(labelLog["b2"]) = 2 /\ label["b2"] = "Copy command"

\* C6: after a single click whose clipboard write failed the label is
\* "Failed" until 2000 ms later, when it becomes the literal "Copy" whatever
\* the original label was; the failure never leaves the click handler.
C6_SingleFailure ==
  /\ "copy" \notin uncaught
  /\ \A b \in Buttons :
       (handled[b] = 1 /\ outcomes[b] = <<"failed">>) =>
         LET L == labelLog[b] IN
         /\ Len(L) \in {1, 2}
         /\ L[1].text = "Failed"
         /\ Len(L) = 1 =>
              /\ label[b] = "Failed"
              /\ now <= L[1].at + 2000
              /\ \E i \in TimersOf(b) : timers[i].due = L[1].at + 2000
         /\ Len(L) = 2 =>
              /\ L[2].at = L[1].at + 2000 /\ L[2].text = "Copy"
              /\ label[b] = "Copy"
              /\ TimersOf(b) = {}

\* C6 witness: the button labelled "Copy command" failed to copy and now
\* reads "Copy"
C6_Witness ==
  /\ handled["b2"] = 1 /\ outcomes["b2"] = <<"failed">>
  /\ Len(labelLog["b2"]) = 2 /\ label["b2"] = "Copy" /\ OriginalLabel("b2") # "Copy"

----------------------------------------------------------------------------
(* Claims about the stat fetchers                                           *)

\* the entry fetcher f found under its key when the last event started it
EntryFound(f) == ev.cacheWas[CacheKey(f)]
AgeFound(f)   == now - EntryFound(f).f.timestamp.v
Requested(f)  == inflight[f] = ev.inflightWas[f] + 1
HasBadges(f)  == BadgesOf(f) \cap page.badges

\* what a badge shows for a value that can be shown
Shown(v) == IF v = Null THEN Placeholder ELSE formatNumber(v).text

ShowsData(f, data) ==
  IF f = "github"
  THEN \A n \in HasBadges(f) :
         badge[n] = Shown(Get(data, IF n = "github-stars" THEN "stars" ELSE "forks"))
  ELSE \A n \in HasBadges(f) : badge[n] = Shown(data)

\* C1: an invocation that finds an entry younger than 5 minutes issues no
\* request and hands the cached data to the render call, whose badges show
\* it once the call returns (a call that throws is the failing invocation of
\* C2); one that finds no entry, or an entry 5 minutes old or older, makes
\* no render call and issues a request.
C1_CacheGate ==
  \A f \in ev.started :
    /\ (EntryFound(f) # NoEntry /\ AgeFound(f) < 300000) =>
         /\ inflight[f] = ev.inflightWas[f]
         /\ ev.rendered[f] = Get(EntryFound(f), "data")
         /\ f \notin ev.failed => ShowsData(f, Get(EntryFound(f), "data"))
    /\ (EntryFound(f) = NoEntry \/ AgeFound(f) >= 300000) =>
         /\ Requested(f)
         /\ ev.rendered[f] = [t |-> "no call"]

\* C1 witness: a call found a 2.5 minutes old entry and rendered its stars
\* without a request
C1_Witness ==
  /\ ev.kind = "fetch" /\ ev.started = {"github"}
  /\ EntryFound("github") # NoEntry /\ AgeFound("github") > 0 /\ AgeFound("github") < 300000
  /\ "github" \notin ev.failed
  /\ "github-stars" \in page.badges /\ badge["github-stars"] = "1.5k"
  /\ inflight["github"] = 0

\* data the render of fetcher f cannot show on this page
Unshowable(f, data) ==
  /\ HasBadges(f) # {}
  /\ \/ ~CanRead(data) /\ f = "github"
     \/ f = "github" /\ "github-stars" \in page.badges /\ Get(data, "stars") = Undef
     \/ f = "github" /\ "github-forks" \in page.badges /\ Get(data, "forks") = Undef
     \/ f = "npm" /\ data = Undef

\* a response fetcher f cannot use
BadResponse(f, resp) ==
  \/ resp.kind # "json"
  \/ resp.body = Null
  \/ Unshowable(f, IF f = "github"
                   THEN Obj([stars |-> Get(resp.body, "stargazers_count"),
                             forks |-> Get(resp.body, "forks_count")])
                   ELSE Get(resp.body, "downloads"))

\* C2: every failing invocation (network error, non-success status, invalid
\* or field-lacking response, unshowable cached entry) ends with the
\* placeholder in every badge of its fetcher, and its error stays inside it.
C2_FailureAbsorbed ==
  /\ uncaught \cap Fetchers = {}
  /\ \A f \in ev.failed : \A n \in HasBadges(f) : badge[n] = Placeholder
  /\ (ev.kind = "response" /\ BadResponse(ev.fetcher, ev.resp)) => ev.fetcher \in ev.failed
  /\ \A f \in ev.started :
       (EntryFound(f) # NoEntry /\ AgeFound(f) < 300000
          /\ Unshowable(f, Get(EntryFound(f), "data"))) => f \in ev.failed

\* C2 witness: a response with stars but no forks left both GitHub badges at
\* the placeholder
C2_Witness ==
  /\ ev.kind = "response" /\ ev.fetcher = "github" /\ ev.resp.kind = "json"
  /\ ev.resp.body # Null /\ Get(ev.resp.body, "stargazers_count") = Num(1500)
  /\ "github" \in ev.failed
  /\ page.badges = BadgeNames
  /\ badge["github-stars"] = Placeholder /\ badge["github-forks"] = Placeholder

\* C3: an invocation that ends in failure leaves the cache entry under its
\* key as it found it. The code stores the entry before it renders and
\* breaks this.
C3_CacheKeptOnFailure ==
  \A f \in ev.failed : cache[CacheKey(f)] = ev.cacheWas[CacheKey(f)]

----------------------------------------------------------------------------
(* Claims about the bootstrapper                                            *)

EntryPointCalled == ev.kind \in {"init", "init-noop"}

\* C11: once a pass of init has completed, every further call of the entry
\* point returns at its first line: it leaves every part of the page as it
\* was (no observer call, no listener, no timer, no request, no badge).
C11_InitOnce ==
  [][ (initialized /\ EntryPointCalled') =>
        /\ ev'.kind = "init-noop"
        /\ UNCHANGED <<page, initialized, loadVars, navVars, menuVars, now, copyVars,
                       statVars, uncaught>> ]_vars

\* C11 witness: the entry point was called again while the timer of the
\* first pass was still pending
C11_Witness ==
  /\ ev.kind = "init-noop" /\ initialized /\ page.loader
  /\ Len(timers) = 1 /\ inflight = [f \in Fetchers |-> 1]

\* what a completed pass leaves behind, the page being what it is
PassDone ==
  /\ snapshot = marked
  /\ IF page.io THEN observed = snapshot /\ ioCalls = 1 + Cardinality(snapshot)
                ELSE revealed = snapshot /\ ioCalls = 0
  /\ navWired = page.nav
  /\ menuWired = (page.hamburger /\ page.navLinks)
  /\ copyWired
  /\ anchorsWired
  /\ IF page.loader THEN Len(timers) = 1 /\ timers[1].kind = "loader-hide"
                    ELSE timers = <<>>
  /\ ev.kind = "init" => (ev.started = Fetchers /\ \A f \in Fetchers : inflight[f] = 1)
  /\ uncaught = {}

Other(f) == IF f = "github" THEN "npm" ELSE "github"

\* what fetcher f makes of a response, on its own
OwnResult(f, resp) ==
  LET data == IF f = "github"
              THEN Obj([stars |-> Get(resp.body, "stargazers_count"),
                        forks |-> Get(resp.body, "forks_count")])
              ELSE Get(resp.body, "downloads")
  IN  IF resp.kind # "json" \/ resp.body = Null \/ Unshowable(f, data)
      THEN \A n \in HasBadges(f) : badge[n] = Placeholder
      ELSE ShowsData(f, data)

BadgesAt(f, b) == [n \in BadgesOf(f) |-> b[n]]

\* C12: whatever targets the page has and however the two requests end, a
\* call of init on a fresh page runs every initializer and sets initialized;
\* the result a fetcher renders is the one its own response gives, and the
\* badges and the cache entry of the other fetcher stay as they were.
C12_InitIndependent ==
  /\ [](EntryPointCalled => initialized)
  /\ [](initialized => PassDone)
  /\ [](ev.kind = "response" => OwnResult(ev.fetcher, ev.resp))
  /\ [][ ev'.kind = "response" =>
           /\ BadgesAt(Other(ev'.fetcher), badge') = BadgesAt(Other(ev'.fetcher), badge)
           /\ cache'[CacheKey(Other(ev'.fetcher))] = cache[CacheKey(Other(ev'.fetcher))]
           /\ initialized' ]_vars

\* C12 witness: on a page without nav, hamburger, loader and observer
\* support, the GitHub request failed and the npm one succeeded
C12_Witness ==
  /\ ~page.nav /\ ~page.hamburger /\ ~page.loader /\ ~page.io /\ page.badges = BadgeNames
  /\ initialized /\ copyWired /\ anchorsWired /\ revealed = RevealEls
  /\ inflight = [f \in Fetchers |-> 0]
  /\ hasFailed = {"github"}
  /\ badge["github-stars"] = Placeholder /\ badge["github-forks"] = Placeholder
  /\ badge["npm-downloads"] = "2.5M"

----------------------------------------------------------------------------
(* Claims about the anchor links                                            *)

\* C13: on the initialized page a click on a link whose href names no
\* element leaves the scroll offset, the URL and the session history as they
\* were, and starts no scroll. The handler returns before preventDefault, the
\* browser follows the link to the fragment, and the URL breaks this.
C13_MissingTargetNoEffect ==
  (initialized /\ ev.kind = "anchor" /\ ev.href = "#missing-id") =>
    /\ scrollY = ev.scrollYWas
    /\ scrollTo = ev.scrollToWas
    /\ url = ev.urlWas
    /\ historyLen = ev.historyWas

----------------------------------------------------------------------------
(* Claims about reveal-on-scroll                                            *)

\* C14: in a browser without IntersectionObserver no call of the observation
\* API is ever made and nothing is ever observed, and from the end of init on
\* every element that was marked for reveal when init ran is revealed.
C14_FallbackReveal ==
  ~page.io =>
    /\ ioCalls = 0
    /\ observed = {}
    /\ ev.kind = "init" => (snapshot = marked /\ revealed = marked)
    /\ initialized => snapshot \subseteq revealed

\* C14 witness: init just ran without observer support on a page on which a
\* third element had been marked before, and revealed all three
C14_Witness ==
  /\ ~page.io /\ ev.kind = "init" /\ initialized
  /\ snapshot = Els /\ revealed = Els /\ ioCalls = 0

\* C15: an observed element is revealed and unobserved by the first
\* callback that reports it intersecting, and by no other; a revealed
\* element is never observed again nor un-revealed, so each element has at
\* most one handled report; only the elements init found marked are ever
\* observed or revealed.
C15_RevealOneShot ==
  /\ [](\A e \in Els : reports[e] <= 1)
  /\ [](observed \cup revealed \subseteq snapshot)
  /\ [](page.io => /\ observed \cap revealed = {}
                   /\ \A e \in Els : e \in revealed <=> reports[e] = 1
                   /\ initialized => observed \cup revealed = snapshot)
  /\ [](ev.kind = "intersect" =>
          /\ revealed = ev.revealedWas \cup ev.hits
          /\ observed = ev.observedWas \ ev.hits
          /\ ev.hits \cap ev.revealedWas = {})
  /\ [][revealed \subseteq revealed']_vars

\* C15 witness: the callback reported r1 intersecting and r2 not; r1 is
\* revealed and no longer observed, r2 is still observed, and r3, marked
\* after init, is neither
C15_Witness ==
  /\ page.io /\ ev.kind = "intersect" /\ ev.targets = {"r1", "r2"} /\ ev.hits = {"r1"}
  /\ revealed = {"r1"} /\ observed = {"r2"} /\ reports["r1"] = 1
  /\ "r3" \in marked \ snapshot

----------------------------------------------------------------------------
(* Claims about the rendering of the counts                                 *)

Abs(x) == IF x < 0 THEN 0 - x ELSE x

\* t tenths is n/d rounded to one decimal: no number of tenths is nearer
RoundedToOneDecimal(t, n, d) == 2 * Abs(t * d - 10 * n) <= d

OneDecimal(t) == ToString(t \div 10) \o "." \o ToString(t % 10)

\* text renders the count n
RendersCount(text, n) ==
  IF n < 1000 THEN text = ToString(n)
  ELSE LET d == IF n < 1000000 THEN 1000 ELSE 1000000
           suffix == IF n < 1000000 THEN "k" ELSE "M"
       IN  \E t \in {(10 * n) \div d, (10 * n) \div d + 1} :
             /\ RoundedToOneDecimal(t, n, d)
             /\ text = OneDecimal(t) \o suffix

\* text renders the value v of a response
RendersValue(text, v) ==
  IF v = Null THEN text = Placeholder ELSE RendersCount(text, v.v)

\* C16: a badge shows a count below 1000 verbatim, a count from 1000 to
\* 999999 as the thousands rounded to one decimal with "k", a count from
\* 1000000 on as the millions rounded to one decimal with "M", and a null
\* value as the placeholder, in each of the three badges.
C16_FormatNumber ==
  /\ formatNumber(Num(999)).text = "999"
  /\ formatNumber(Num(1500)).text = "1.5k"
  /\ formatNumber(Num(2500000)).text = "2.5M"
  /\ ev.kind = "response" =>
       IF ev.fetcher = "npm"
       THEN RendersValue(badge["npm-downloads"], ev.resp.body.f.downloads)
       ELSE /\ RendersValue(badge["github-stars"], ev.resp.body.f.stargazers_count)
            /\ RendersValue(badge["github-forks"], ev.resp.body.f.forks_count)

\* C16 witness: 1251 downloads show as "1.3k" next to null stars, shown as
\* the placeholder, and 2500000 forks, shown as "2.5M"
C16_Witness ==
  /\ ev.kind = "response" /\ ev.fetcher = "npm"
  /\ ev.resp.body.f.downloads = Num(1251) /\ badge["npm-downloads"] = "1.3k"
  /\ badge["github-stars"] = Placeholder /\ badge["github-forks"] = "2.5M"

----------------------------------------------------------------------------
(* Claims about retries and about what the two fetchers share               *)

\* the last event invoked fetcher f, or delivered the response of one of
\* its requests
RanFetcher(f) == f \in ev.started \/ (ev.kind = "response" /\ ev.fetcher = f)

\* an invocation issues at most one request, and the continuation that
\* handles a response issues none
OneRequestPerInvocation ==
  /\ \A f \in ev.started : inflight[f] \in {ev.inflightWas[f], ev.inflightWas[f] + 1}
  /\ ev.kind = "response" => inflight[ev.fetcher] = ev.inflightWas[ev.fetcher] - 1

\* C17 as stated: an invocation issues at most one request, and from the
\* failure of a fetch on the badges of its fetcher show the placeholder for
\* the rest of the page load.
C17_PlaceholderUntilReload ==
  /\ OneRequestPerInvocation
  /\ \A f \in hasFailed : \A n \in HasBadges(f) : badge[n] = Placeholder

\* C17, amended: an invocation issues at most one request and a failure
\* issues none; a failed invocation leaves the placeholder in the badges of
\* its fetcher, and they keep it through every event that is not an
\* invocation of that fetcher (by init or through window.OMX) or the
\* response to one.
C17_NoRetry ==
  /\ OneRequestPerInvocation
  /\ \A f \in ev.failed : \A n \in HasBadges(f) : badge[n] = Placeholder
  /\ \A f \in Fetchers :
       ~RanFetcher(f) => /\ BadgesAt(f, badge) = BadgesAt(f, ev.badgeWas)
                         /\ inflight[f] = ev.inflightWas[f]

\* C17 witness: the GitHub request of init failed, nobody called the
\* fetcher again, and five minutes later the badges still show the
\* placeholder and no request is out
C17_Witness ==
  /\ hasFailed = {"github"} /\ manualCalls = 0 /\ ev.kind = "tick" /\ now = StatMaxTime
  /\ page.badges = BadgeNames /\ inflight["github"] = 0
  /\ badge["github-stars"] = Placeholder /\ badge["github-forks"] = Placeholder

\* the state of the fetchers the last event found
StatStateWas ==
  [StatState EXCEPT !.cache = ev.cacheWas, !.badge = ev.badgeWas,
                    !.inflight = ev.inflightWas]

\* that state, with everything of fetcher g as on a fresh page
Without(g) ==
  [StatStateWas EXCEPT !.cache[CacheKey(g)] = NoEntry,
                       !.inflight[g] = 0,
                       !.badge = [n \in BadgeNames |->
                                    IF n \in BadgesOf(g) THEN InitialBadge
                                    ELSE ev.badgeWas[n]]]

\* what belongs to fetcher f in a state s of the fetchers
PartOf(f, s) == <<s.cache[CacheKey(f)], BadgesAt(f, s.badge), s.inflight[f]>>

\* C18: under every interleaving an invocation of a fetcher, and the
\* handling of its response, change nothing but its own cache entry, badges
\* and request, and what they make of these does not depend on the cache
\* entry, the badges or the request of the other fetcher.
C18_NoSharedState ==
  \A f \in Fetchers :
    LET mine == PartOf(f, StatState)
        g == Other(f)
    IN  /\ ~RanFetcher(f) => mine = PartOf(f, StatStateWas)
        /\ f \in ev.started => mine = PartOf(f, Started(f, Without(g)))
        /\ (ev.kind = "response" /\ ev.fetcher = f) =>
             mine = PartOf(f, Settled(f, ev.resp, Without(g)))

\* C18 witness: the npm response was handled while the GitHub request was
\* still out; the npm entry and badge are written, those of GitHub untouched
C18_Witness ==
  /\ ev.kind = "response" /\ ev.fetcher = "npm" /\ inflight["github"] = 1
  /\ page.badges = BadgeNames
  /\ cache["omx-npm-downloads"] # NoEntry /\ cache["omx-github-stats"] = NoEntry
  /\ badge["npm-downloads"] = "2.5M"
  /\ badge["github-stars"] = InitialBadge /\ badge["github-forks"] = InitialBadge

----------------------------------------------------------------------------
(* Claims about the menu styling and the copy label                         *)

\* the menu elements of the page that can carry the active styling
MenuEls == ((IF page.navLinks THEN {"navLinks"} ELSE {})
              \cup (IF page.hamburger THEN {"hamburger"} ELSE {})) \cup overlayEl

\* C19: whatever clicks and key presses were handled, the menu flag is set
\* exactly when the links container, the hamburger and (if the page has one)
\* the overlay are active and the body overflow is hidden; when the flag is
\* clear none of them is active and the body overflow is back to default.
C19_MenuStyling ==
  /\ mobileMenuOpen <=> (menuWired /\ activeEls = MenuEls /\ bodyOverflow = "hidden")
  /\ ~mobileMenuOpen => (activeEls = {} /\ bodyOverflow = "")

\* C19 witness: on a page without overlay the menu was opened, closed by a
\* link and opened again by the hamburger
C19_Witness ==
  /\ ~page.overlay /\ menuWired /\ ev.kind = "hamburger" /\ ~ev.menuWas
  /\ mobileMenuOpen /\ activeEls = {"navLinks", "hamburger"} /\ bodyOverflow = "hidden"

\* C20: when every clipboard write of the clicks on a button has succeeded
\* and no feedback timer of the button is pending any more, the button shows
\* the label it had before the first click. With two clicks less than
\* 2000 ms apart the second one takes "Copied!" for the original label, and
\* its timer breaks this.
C20_LabelRestored ==
  \A b \in Buttons :
    (/\ handled[b] >= 1 /\ writes[b] = 0 /\ TimersOf(b) = {}
     /\ \A i \in 1..Len(outcomes[b]) : outcomes[b][i] = "ok") =>
      label[b] = OriginalLabel(b)
====
